---- MODULE Spec2Model ----
(***************************************************************************)
(* A model of src/app.py: the Trello flattening service.                   *)
(*                                                                         *)
(*   - convert_to_canada_central_time, as an operator on parsed            *)
(*     timestamps (specification SpecTime);                                *)
(*   - TrelloAPI and the /sync handler sync_trello, as a state machine     *)
(*     whose steps are the handler's upstream calls (specification Spec:   *)
(*     passes run one after another; specification SpecConc: two passes    *)
(*     interleave).                                                        *)
(*                                                                         *)
(* Strings built by ', '.join, '\n'.join and f-strings are modelled as the *)
(* tuple of their parts; a record's card is told by Trello_Card_Link, the  *)
(* card's shortUrl, which upstream derives from the card identifier.       *)
(***************************************************************************)
EXTENDS Integers, Sequences, FiniteSets, TLC

VARIABLES
    TRELLO_API_KEY,     \* module constant, line 16
    TRELLO_TOKEN,       \* module constant, line 17
    processed_cards,    \* module-level set, line 177
    frame,              \* frame[r]: the locals of request r's sync_trello call
    obs,                \* obs[r]: what an observer recorded about request r's pass
    dropped,            \* observer: cards marked processed with no record emitted
    environ,            \* os.environ when the module was imported
    passes,             \* number of /sync requests received so far
    upstream_mode,      \* "volatile": upstream data changes and calls fail; "stable"
    utc_datetime_str,   \* the argument of convert_to_canada_central_time
    localized           \* its result, or NotCalled

vars == <<TRELLO_API_KEY, TRELLO_TOKEN, processed_cards, frame, obs, dropped, environ,
          passes, upstream_mode, utc_datetime_str, localized>>

None == "None"

(***************************************************************************)
(* Bounds of the model.                                                    *)
(***************************************************************************)
MaxPasses == 2      \* /sync requests in one run of the process
MaxBoards == 2      \* boards upstream knows
MaxCards  == 2      \* cards upstream knows, dealt round-robin to the boards
MaxItems  == 2      \* checklist items of one card
FirstYear == 2019   \* first year of the timestamps localized
NumYears  == 8      \* number of years of the timestamps localized

(***************************************************************************)
(* datetime: the proleptic Gregorian calendar of Python's datetime module. *)
(***************************************************************************)
IsLeap(y) == (y % 4 = 0) /\ ((y % 100 # 0) \/ (y % 400 = 0))

DaysInMonth(y, m) ==
    IF m = 2 THEN (IF IsLeap(y) THEN 29 ELSE 28)
    ELSE IF m \in {4, 6, 9, 11} THEN 30 ELSE 31

DaysBeforeYear(y) ==
    (y - 1) * 365 + ((y - 1) \div 4) - ((y - 1) \div 100) + ((y - 1) \div 400)

RECURSIVE DaysBeforeMonth(_, _)
DaysBeforeMonth(y, m) ==
    IF m = 1 THEN 0 ELSE DaysBeforeMonth(y, m - 1) + DaysInMonth(y, m - 1)

\* date.toordinal(): 0001-01-01 is day 1
Ordinal(y, m, d) == DaysBeforeYear(y) + DaysBeforeMonth(y, m) + d

\* date.weekday(): Monday is 0, Sunday is 6
Weekday(y, m, d) == (Ordinal(y, m, d) + 6) % 7

\* a naive datetime as minutes since 0001-01-01T00:00 less one day; comparison
\* and timedelta arithmetic of datetimes are comparison and arithmetic of these
Datetime(y, m, d, hh, mm) == Ordinal(y, m, d) * 1440 + hh * 60 + mm

\* the calendar fields of a datetime value (date.fromordinal and the time part)
Fields(t) ==
    LET o  == t \div 1440
        y  == CHOOSE yy \in (FirstYear - 1)..(FirstYear + NumYears + 1) :
                  DaysBeforeYear(yy) < o /\ o <= DaysBeforeYear(yy + 1)
        m  == CHOOSE mm \in 1..12 :
                  /\ DaysBeforeYear(y) + DaysBeforeMonth(y, mm) < o
                  /\ o <= DaysBeforeYear(y) + DaysBeforeMonth(y, mm) + DaysInMonth(y, mm)
    IN  [year |-> y, month |-> m,
         day |-> o - DaysBeforeYear(y) - DaysBeforeMonth(y, m),
         hour |-> (t % 1440) \div 60, minute |-> t % 60]

(***************************************************************************)
(* convert_to_canada_central_time, lines 19-41.  A well-formed argument is *)
(* the record of the fields datetime.fromisoformat parses out of it; an    *)
(* argument fromisoformat rejects is the tuple of its characters.          *)
(***************************************************************************)
dst_start(year) ==
    Datetime(year, 3, 8, 0, 0) + (((6 - Weekday(year, 3, 8)) % 7) + 7) * 1440

dst_end(year) ==
    Datetime(year, 11, 1, 0, 0) + ((6 - Weekday(year, 11, 1)) % 7) * 1440

InDst(parsed_date) ==
    LET t == Datetime(parsed_date.year, parsed_date.month, parsed_date.day,
                      parsed_date.hour, parsed_date.minute)
    IN  dst_start(parsed_date.year) <= t /\ t < dst_end(parsed_date.year)

\* strftime('%I:%M %p').lstrip('0') and strftime('%Y-%m-%d'), with the label
Format(central_time, timezone_label) ==
    LET f == Fields(central_time)
    IN  [kind |-> "local",
         date |-> <<f.year, f.month, f.day>>,
         hour |-> IF f.hour % 12 = 0 THEN 12 ELSE f.hour % 12,
         minute |-> f.minute,
         ampm |-> IF f.hour < 12 THEN "AM" ELSE "PM",
         label |-> timezone_label]

convert_to_canada_central_time(s) ==
    IF s.kind = "iso"
    THEN LET parsed_date == s
             t == Datetime(s.year, s.month, s.day, s.hour, s.minute)
         IN  IF InDst(parsed_date)
             THEN Format(t + (-5) * 60, "CDT")
             ELSE Format(t + (-6) * 60, "CST")
    ELSE [kind |-> "raw",
          text |-> IF Len(s.text) >= 16 THEN SubSeq(s.text, 1, 16) ELSE s.text]

(***************************************************************************)
(* Upstream: what the Trello REST API can answer.  A response either       *)
(* raises in requests.get (a transport failure) or carries a status code   *)
(* and a JSON body.                                                        *)
(***************************************************************************)
Requests  == {"r1", "r2"}
Worker    == "r1"
BoardIds  == 1..MaxBoards
CardIds   == 1..MaxCards
ListNames == {"To Do"}

BoardOf(c) == ((c - 1) % MaxBoards) + 1
CardsOf(b) == {c \in CardIds : BoardOf(c) = b}

EmptyDict == [k \in {} |-> None]
Put(d, k, v) == [x \in (DOMAIN d) \cup {k} |-> IF x = k THEN v ELSE d[x]]

Raises      == [raises |-> TRUE,  status_code |-> 0,   json |-> <<>>]
Status(n)   == [raises |-> FALSE, status_code |-> n,   json |-> <<>>]
Ok(body)    == [raises |-> FALSE, status_code |-> 200, json |-> body]

Board(b) == [id |-> b, name |-> <<"Client", b>>]

MemberFull == [id |-> "m1", fullName |-> "Ann Lee", username |-> "ann", displayName |-> None]
MemberUser == [id |-> "m1", fullName |-> None, username |-> "ann", displayName |-> None]

\* listinfo: "embedded" (the card carries its list), "id" (only idList), "none"
Card(c, closed, listinfo) ==
    [id |-> c, name |-> <<"Project", c>>, shortUrl |-> <<"https://trello.com/c", c>>,
     closed |-> closed,
     list |-> IF listinfo = "embedded" THEN "Doing" ELSE None,
     idList |-> IF listinfo = "id" THEN "l1" ELSE None,
     members |-> IF c = 1 THEN <<MemberFull>> ELSE <<>>]

\* the cards of a cards body: ascending identifiers, each card of the board
\* absent or present as chosen by pick
RECURSIVE CardSeq(_, _, _)
CardSeq(b, pick, c) ==
    IF c > MaxCards THEN <<>>
    ELSE IF BoardOf(c) = b /\ pick[c][1]
         THEN <<Card(c, pick[c][2], pick[c][3])>> \o CardSeq(b, pick, c + 1)
         ELSE CardSeq(b, pick, c + 1)

\* <<present, closed, listinfo>>
Absent == <<FALSE, FALSE, "none">>
CardChoices == {Absent} \cup ({TRUE} \X BOOLEAN \X {"embedded", "id", "none"})

CardsBodies(b) ==
    {CardSeq(b, pick, 1) :
        pick \in {f \in [CardIds -> CardChoices] :
                     \A c \in CardIds : BoardOf(c) # b => f[c] = Absent}}

StableCards(b) ==
    CardSeq(b, [c \in CardIds |-> <<TRUE, FALSE, IF c % 2 = 1 THEN "id" ELSE "embedded">>], 1)

DueSample == [kind |-> "iso", year |-> 2024, month |-> 7, day |-> 4, hour |-> 18, minute |-> 0]

\* variant "a": pending, unassigned, no due date; variant "b": complete, assigned
\* (odd items through idMembers, even items through idMember), due
CheckItem(i, variant) ==
    IF variant = "a"
    THEN [name |-> <<"Step", i>>, state |-> "incomplete",
          idMembers |-> <<>>, idMember |-> None, due |-> [kind |-> "none"]]
    ELSE [name |-> <<"Step", i>>, state |-> "complete",
          idMembers |-> IF i % 2 = 1 THEN <<"m1">> ELSE <<>>,
          idMember |-> IF i % 2 = 1 THEN None ELSE "m1",
          due |-> DueSample]

\* an odd number n of items: one checklist of n items of variant "a"; an even
\* number: n checklists of one item of variant "b"
ChecklistsBody(n) ==
    IF n % 2 = 1
    THEN <<[checkItems |-> [i \in 1..n |-> CheckItem(i, "a")]]>>
    ELSE [i \in 1..n |-> [checkItems |-> <<CheckItem(i, "b")>>]]

ChecklistsBodies == {ChecklistsBody(n) : n \in 0..MaxItems}

CommentAction ==
    [type |-> "commentCard", text |-> "looks good", fullName |-> "Ann Lee",
     date |-> <<"2024-07-04", "T18:00:00.000Z">>]

\* the responses upstream can give to one request: anything when volatile, the
\* one healthy answer when stable
Upstream(bodies, stable) ==
    IF upstream_mode = "stable" THEN {Ok(stable)}
    ELSE {Raises, Status(500)} \cup {Ok(b) : b \in bodies}

(***************************************************************************)
(* TrelloAPI, lines 43-174.  Each method is an operator on the response    *)
(* upstream gave to the method's request.                                  *)
(***************************************************************************)
\* a variant of _make_request that raises on a non-success status, as
\* response.raise_for_status() would
raise_for_status(response) ==
    IF response.raises \/ response.status_code # 200
    THEN [raised |-> TRUE, is_none |-> TRUE, json |-> <<>>]
    ELSE [raised |-> FALSE, is_none |-> FALSE, json |-> response.json]

\* _make_request: what it hands back, or that requests.get raised through it
_make_request(response) ==
    IF response.raises
    THEN [raised |-> TRUE, is_none |-> TRUE, json |-> <<>>]
    ELSE IF response.status_code # 200
         THEN [raised |-> FALSE, is_none |-> TRUE, json |-> <<>>]
         ELSE [raised |-> FALSE, is_none |-> FALSE, json |-> response.json]

\* `x or []`
OrEmpty(result) == IF result.is_none THEN <<>> ELSE result.json

\* fullName or username or displayName or 'Unknown'
MemberName(member) ==
    IF member.fullName # None THEN member.fullName
    ELSE IF member.username # None THEN member.username
    ELSE IF member.displayName # None THEN member.displayName
    ELSE "Unknown"

\* the loop of get_board_members over members[i..], writing into dict d
RECURSIVE MemberDict(_, _, _)
MemberDict(members, i, d) ==
    IF i > Len(members) THEN d
    ELSE MemberDict(members, i + 1, Put(d, members[i].id, MemberName(members[i])))

\* get_card_members: fullName or username, 'Unknown' when both are missing
get_card_members(card) ==
    [i \in 1..Len(card.members) |->
        IF card.members[i].fullName # None THEN card.members[i].fullName
        ELSE IF card.members[i].username # None THEN card.members[i].username
        ELSE "Unknown"]

\* the comments of get_card_activity
RECURSIVE Comments(_, _)
Comments(actions, i) ==
    IF i > Len(actions) THEN <<>>
    ELSE IF actions[i].type = "commentCard"
         THEN <<<<actions[i].fullName, actions[i].date[1], actions[i].text>>>>
              \o Comments(actions, i + 1)
         ELSE Comments(actions, i + 1)

\* the names of the assignees the board's member lookup knows
RECURSIVE AssigneeNames(_, _, _)
AssigneeNames(assignee_ids, i, member_lookup) ==
    IF i > Len(assignee_ids) THEN <<>>
    ELSE IF assignee_ids[i] \in DOMAIN member_lookup
         THEN <<member_lookup[assignee_ids[i]]>>
              \o AssigneeNames(assignee_ids, i + 1, member_lookup)
         ELSE AssigneeNames(assignee_ids, i + 1, member_lookup)

\* one entry of all_checklist_items, lines 144-172
ChecklistItem(item, member_lookup) ==
    LET assignee_ids ==
            IF item.idMembers # <<>> THEN item.idMembers
            ELSE IF item.idMember # None THEN <<item.idMember>>
            ELSE <<>>
    IN  [name |-> item.name,
         status |-> IF item.state = "complete" THEN "Complete" ELSE "Pending",
         assigned_to |-> AssigneeNames(assignee_ids, 1, member_lookup),
         due_date |-> IF item.due.kind = "none" THEN item.due
                      ELSE convert_to_canada_central_time(item.due)]

\* the two nested loops of get_checklist_items_detailed over checklists[i..]
RECURSIVE get_checklist_items_detailed(_, _, _)
get_checklist_items_detailed(checklists, i, member_lookup) ==
    IF i > Len(checklists) THEN <<>>
    ELSE [k \in 1..Len(checklists[i].checkItems) |->
             ChecklistItem(checklists[i].checkItems[k], member_lookup)]
         \o get_checklist_items_detailed(checklists, i + 1, member_lookup)

(***************************************************************************)
(* sync_trello, lines 179-267.  frame[r] holds the locals of request r's   *)
(* call (the TrelloAPI instance it constructs included); pc is the         *)
(* upstream call the handler makes next.  The locals die when the handler  *)
(* returns: a finished frame keeps the response and, for the observer, the *)
(* caches of the TrelloAPI instance the pass ended with.                   *)
(***************************************************************************)
NoResponse == [status |-> 0, error |-> None, tasks |-> <<>>]

IdleFrame ==
    [pc |-> "idle",
     member_cache |-> EmptyDict, list_cache |-> EmptyDict,
     boards |-> <<>>, board_i |-> 1,
     member_lookup |-> EmptyDict,
     active_cards |-> <<>>, card_i |-> 1,
     card_members |-> <<>>, list_name |-> None, card_activity |-> <<>>,
     all_tasks |-> <<>>,
     response |-> NoResponse]

IdleObs ==
    [start_processed |-> {}, called |-> FALSE, raised |-> FALSE,
     no_boards |-> FALSE, reported_closed |-> {}, marked_at_test |-> {},
     skipped |-> {}, items_of |-> {}, lists_fetched |-> <<>>, cache_hits |-> {}]

\* what the observer notes of one upstream response
Seen(o, response) ==
    [o EXCEPT !.called = TRUE, !.raised = @ \/ response.raises]

\* jsonify(...), status: the handler returns
Respond(f, status, error, tasks) ==
    [IdleFrame EXCEPT !.pc = "done",
                      !.member_cache = f.member_cache,
                      !.list_cache = f.list_cache,
                      !.response = [status |-> status, error |-> error, tasks |-> tasks]]

\* a variant of the credentials check that wants both placeholders
CredentialsBothNotSet ==
    TRELLO_API_KEY = "your_api_key_here" /\ TRELLO_TOKEN = "your_token_here"

\* line 184
CredentialsNotSet ==
    TRELLO_API_KEY = "your_api_key_here" \/ TRELLO_TOKEN = "your_token_here"

\* lines 266-267: the except clause of the handler
Error500(f) == Respond(f, 500, "exception", <<>>)

\* lines 183-189: the credentials check, then the TrelloAPI constructor
Begin(r) ==
    /\ frame[r].pc \in {"idle", "done"}
    /\ passes < MaxPasses
    /\ passes' = passes + 1
    /\ obs' = [obs EXCEPT ![r] = [IdleObs EXCEPT !.start_processed = processed_cards]]
    /\ frame' = [frame EXCEPT ![r] =
          IF CredentialsNotSet
          THEN Respond(IdleFrame, 400, "API credentials not set", <<>>)
          ELSE [IdleFrame EXCEPT !.pc = "boards"]]
    /\ UNCHANGED <<TRELLO_API_KEY, TRELLO_TOKEN, processed_cards, dropped, environ,
                   upstream_mode, utc_datetime_str, localized>>

\* the reference deployment: one worker, one request at a time
sync_trello(r) ==
    /\ r = Worker
    /\ Begin(r)

\* a deployment that serves requests concurrently
sync_trello_concurrent(r) == Begin(r)

Rest == <<TRELLO_API_KEY, TRELLO_TOKEN, environ, passes, upstream_mode,
          utc_datetime_str, localized>>

\* lines 191-195
get_all_boards(r) ==
    /\ frame[r].pc = "boards"
    /\ \E response \in Upstream({[i \in 1..n |-> Board(i)] : n \in 0..MaxBoards},
                                [i \in 1..MaxBoards |-> Board(i)]) :
          LET result == _make_request(response)
              boards == OrEmpty(result)
          IN  /\ obs' = [obs EXCEPT ![r] =
                    [Seen(@, response) EXCEPT
                        !.no_boards = ~response.raises /\ boards = <<>>]]
              /\ frame' = [frame EXCEPT ![r] =
                    IF result.raised THEN Error500(@)
                    ELSE IF boards = <<>> THEN Respond(@, 404, "No boards found", <<>>)
                    ELSE [@ EXCEPT !.pc = "members", !.boards = boards, !.board_i = 1]]
    /\ UNCHANGED <<processed_cards, dropped>>
    /\ UNCHANGED Rest

\* lines 198-203, and get_board_members, lines 93-107
get_board_members(r) ==
    /\ frame[r].pc = "members"
    /\ \E response \in Upstream({<<>>, <<MemberUser>>}, <<MemberFull>>) :
          LET result == _make_request(response)
              members == OrEmpty(result)
          IN  /\ obs' = [obs EXCEPT ![r] = Seen(@, response)]
              /\ frame' = [frame EXCEPT ![r] =
                    IF result.raised THEN Error500(@)
                    ELSE [@ EXCEPT !.pc = "cards",
                             !.member_lookup = MemberDict(members, 1, EmptyDict),
                             !.member_cache = MemberDict(members, 1, @)]]
    /\ UNCHANGED <<processed_cards, dropped>>
    /\ UNCHANGED Rest

\* a variant of the archive filter that keeps every card
AllCards(all_cards) == all_cards

\* line 209
ActiveCards(all_cards) == SelectSeq(all_cards, LAMBDA card : ~card.closed)

\* a variant of the deduplication test that never skips
NeverProcessed(card_id, processed) == FALSE

\* line 218
AlreadyProcessed(card_id, processed) == card_id \in processed

\* a variant of the cache test that always misses
NeverCached(id, cache) == FALSE

\* lines 64 and 79: the cache test of get_member_name and get_list_name
Cached(id, cache) == id \in DOMAIN cache

\* a variant of the mark that forgets the card
Unmarked(processed, card_id) == processed

\* line 256
MarkProcessed(processed, card_id) == processed \cup {card_id}

\* a variant that also emits a record for the card itself, with empty Step fields
TaskRecordsAndCard(board_name, card, list_name, card_members, card_activity, checklist_items) ==
    [i \in 1..(Len(checklist_items) + 1) |->
        [Client_Name |-> board_name,
         Project_Name |-> card.name,
         Status |-> list_name,
         Assigned_To |-> card_members,
         Step |-> IF i = 1 THEN <<>> ELSE checklist_items[i - 1].name,
         Step_Assigned_To |-> IF i = 1 THEN <<>> ELSE checklist_items[i - 1].assigned_to,
         Step_Status |-> IF i = 1 THEN "" ELSE checklist_items[i - 1].status,
         Due_Date |-> IF i = 1 THEN [kind |-> "none"] ELSE checklist_items[i - 1].due_date,
         Trello_Card_Link |-> card.shortUrl,
         Comment |-> card_activity,
         Notes |-> ""]]

\* lines 237-253: the records of one card
TaskRecords(board_name, card, list_name, card_members, card_activity, checklist_items) ==
    [i \in 1..Len(checklist_items) |->
        [Client_Name |-> board_name,
         Project_Name |-> card.name,
         Status |-> list_name,
         Assigned_To |-> card_members,
         Step |-> checklist_items[i].name,
         Step_Assigned_To |-> checklist_items[i].assigned_to,
         Step_Status |-> checklist_items[i].status,
         Due_Date |-> checklist_items[i].due_date,
         Trello_Card_Link |-> card.shortUrl,
         Comment |-> card_activity,
         Notes |-> ""]]

\* lines 205-209, and get_cards_on_board, lines 109-112
get_cards_on_board(r) ==
    /\ frame[r].pc = "cards"
    /\ LET board_id == frame[r].boards[frame[r].board_i].id
       IN  \E response \in Upstream(CardsBodies(board_id), StableCards(board_id)) :
              LET result == _make_request(response)
                  all_cards == OrEmpty(result)
              IN  /\ obs' = [obs EXCEPT ![r] =
                        [Seen(@, response) EXCEPT !.reported_closed =
                            @ \cup {all_cards[i].id : i \in
                                       {k \in 1..Len(all_cards) : all_cards[k].closed}}]]
                  /\ frame' = [frame EXCEPT ![r] =
                        IF result.raised THEN Error500(@)
                        ELSE [@ EXCEPT !.pc = "card",
                                 !.active_cards = ActiveCards(all_cards),
                                 !.card_i = 1]]
    /\ UNCHANGED <<processed_cards, dropped>>
    /\ UNCHANGED Rest

\* the heads of the two for loops and the code between upstream calls: lines
\* 198 and 212-229 (the deduplication test, the card's members, the list name
\* the card carries or the cache holds), and the return of lines 259-264
next_card(r) ==
    /\ frame[r].pc = "card"
    /\ LET f == frame[r]
       IN  IF f.card_i > Len(f.active_cards)
           THEN /\ frame' = [frame EXCEPT ![r] =
                      IF f.board_i < Len(f.boards)
                      THEN [@ EXCEPT !.pc = "members", !.board_i = @ + 1]
                      ELSE Respond(@, 200, None, f.all_tasks)]
                /\ obs' = obs
           ELSE LET card == f.active_cards[f.card_i]
                IN  IF AlreadyProcessed(card.id, processed_cards)
                    THEN /\ frame' = [frame EXCEPT ![r].card_i = @ + 1]
                         /\ obs' = [obs EXCEPT ![r].skipped = @ \cup {card.id},
                                               ![r].marked_at_test = @ \cup
                                                   ({card.id} \cap processed_cards)]
                    ELSE /\ frame' = [frame EXCEPT ![r] =
                               [@ EXCEPT
                                  !.card_members = get_card_members(card),
                                  !.list_name =
                                      IF card.list # None THEN card.list
                                      ELSE IF card.idList # None
                                              /\ Cached(card.idList, f.list_cache)
                                           THEN f.list_cache[card.idList]
                                           ELSE "Unknown List",
                                  !.pc = IF card.list = None /\ card.idList # None
                                            /\ ~Cached(card.idList, f.list_cache)
                                         THEN "list" ELSE "activity"]]
                         /\ obs' = [obs EXCEPT ![r].marked_at_test = @ \cup
                                                   ({card.id} \cap processed_cards),
                                               ![r].cache_hits = @ \cup
                                                   IF card.list = None /\ card.idList # None
                                                      /\ Cached(card.idList, f.list_cache)
                                                   THEN {card.idList} ELSE {}]
    /\ UNCHANGED <<processed_cards, dropped>>
    /\ UNCHANGED Rest

\* line 229, and the request of get_list_name, lines 82-87
get_list_name(r) ==
    /\ frame[r].pc = "list"
    /\ LET list_id == frame[r].active_cards[frame[r].card_i].idList
       IN  \E response \in Upstream({[name |-> n] : n \in ListNames}, [name |-> "To Do"]) :
              LET list_data == _make_request(response)
              IN  /\ obs' = [obs EXCEPT ![r] =
                        [Seen(@, response) EXCEPT !.lists_fetched =
                            IF ~response.raises /\ response.status_code = 200
                            THEN Append(@, list_id) ELSE @]]
                  /\ frame' = [frame EXCEPT ![r] =
                        IF list_data.raised THEN Error500(@)
                        ELSE IF list_data.is_none
                        THEN [@ EXCEPT !.pc = "activity", !.list_name = "Unknown List"]
                        ELSE [@ EXCEPT !.pc = "activity",
                                 !.list_name = list_data.json.name,
                                 !.list_cache = Put(@, list_id, list_data.json.name)]]
    /\ UNCHANGED <<processed_cards, dropped>>
    /\ UNCHANGED Rest

\* lines 231-232, and get_card_activity, lines 123-135
get_card_activity(r) ==
    /\ frame[r].pc = "activity"
    /\ \E response \in Upstream({<<>>, <<CommentAction>>}, <<CommentAction>>) :
          LET result == _make_request(response)
              actions == OrEmpty(result)
          IN  /\ obs' = [obs EXCEPT ![r] = Seen(@, response)]
              /\ frame' = [frame EXCEPT ![r] =
                    IF result.raised THEN Error500(@)
                    ELSE [@ EXCEPT !.pc = "checklists",
                             !.card_activity = Comments(actions, 1)]]
    /\ UNCHANGED <<processed_cards, dropped>>
    /\ UNCHANGED Rest

\* the observer's count of the checklist items a response carries
RECURSIVE ItemCount(_, _)
ItemCount(checklists, i) ==
    IF i > Len(checklists) THEN 0
    ELSE Len(checklists[i].checkItems) + ItemCount(checklists, i + 1)

\* lines 234-256: the checklist request, the card's records, the mark
emit_card(r) ==
    /\ frame[r].pc = "checklists"
    /\ LET f == frame[r]
           board == f.boards[f.board_i]
           card == f.active_cards[f.card_i]
       IN  \E response \in Upstream(ChecklistsBodies, ChecklistsBody(MaxItems)) :
              LET result == _make_request(response)
                  checklist_items ==
                      get_checklist_items_detailed(OrEmpty(result), 1, f.member_lookup)
                  n == IF response.raises \/ response.status_code # 200 THEN 0
                       ELSE ItemCount(response.json, 1)
              IN  /\ obs' = [obs EXCEPT ![r] =
                        [Seen(@, response) EXCEPT !.items_of =
                            IF response.raises THEN @ ELSE @ \cup {<<card.id, n>>}]]
                  /\ frame' = [frame EXCEPT ![r] =
                        IF result.raised THEN Error500(@)
                        ELSE [@ EXCEPT !.pc = "card",
                                 !.card_i = @ + 1,
                                 !.all_tasks = @ \o
                                     TaskRecords(board.name, card, f.list_name,
                                         f.card_members, f.card_activity,
                                         checklist_items)]]
                  /\ processed_cards' =
                        IF result.raised THEN processed_cards
                        ELSE MarkProcessed(processed_cards, card.id)
                  /\ dropped' =
                        IF ~response.raises /\ n = 0
                        THEN dropped \cup {card.id} ELSE dropped
    /\ UNCHANGED Rest

(***************************************************************************)
(* The process: the module is imported (lines 16-17 read the environment,  *)
(* line 177 creates the set), then requests arrive.                        *)
(***************************************************************************)
\* os.getenv(name, default)
getenv(env, name, default) == IF name \in DOMAIN env THEN env[name] ELSE default

\* the environments a deployment can give the process
Environments ==
    {e \in UNION {[names -> {"your_api_key_here", "your_token_here", "secret"}] :
                     names \in SUBSET {"TRELLO_API_KEY", "TRELLO_TOKEN"}} :
        /\ ("TRELLO_API_KEY" \in DOMAIN e => e["TRELLO_API_KEY"] # "your_token_here")
        /\ ("TRELLO_TOKEN" \in DOMAIN e => e["TRELLO_TOKEN"] # "your_api_key_here")}

NotCalled == [kind |-> "none"]

Import(mode, environments) ==
    /\ environ \in environments
    /\ TRELLO_API_KEY = getenv(environ, "TRELLO_API_KEY", "your_api_key_here")
    /\ TRELLO_TOKEN = getenv(environ, "TRELLO_TOKEN", "your_token_here")
    /\ processed_cards = {}
    /\ frame = [r \in Requests |-> IdleFrame]
    /\ obs = [r \in Requests |-> IdleObs]
    /\ dropped = {}
    /\ passes = 0
    /\ upstream_mode = mode

Handlers(r) ==
    \/ get_all_boards(r)
    \/ get_board_members(r)
    \/ get_cards_on_board(r)
    \/ next_card(r)
    \/ get_list_name(r)
    \/ get_card_activity(r)
    \/ emit_card(r)

(***************************************************************************)
(* Spec: the reference deployment.  One worker serves the /sync requests   *)
(* one after another; upstream is volatile.                                *)
(***************************************************************************)
Init ==
    /\ Import("volatile", Environments)
    /\ utc_datetime_str = NotCalled
    /\ localized = NotCalled

Next == \E r \in Requests : sync_trello(r) \/ Handlers(r)

Spec == Init /\ [][Next]_vars

(***************************************************************************)
(* SpecConc: two workers serve /sync requests at once, against an upstream *)
(* that is healthy and does not change.  A step is one upstream call with  *)
(* the handler code that follows it.                                       *)
(***************************************************************************)
InitConc ==
    /\ Import("stable", Environments)
    /\ utc_datetime_str = NotCalled
    /\ localized = NotCalled

NextConc == \E r \in Requests : sync_trello_concurrent(r) \/ Handlers(r)

SpecConc == InitConc /\ [][NextConc]_vars

(***************************************************************************)
(* SpecTime: convert_to_canada_central_time on every minute-zero timestamp *)
(* of the years modelled at a few hours of the day, and on two arguments   *)
(* that datetime.fromisoformat rejects.                                    *)
(***************************************************************************)
Years == FirstYear..(FirstYear + NumYears - 1)

Timestamps ==
    {[kind |-> "iso", year |-> y, month |-> m, day |-> d, hour |-> hh, minute |-> mm] :
        y \in Years, m \in 1..12, d \in 1..31, hh \in {0, 4, 5, 6, 18, 23}, mm \in {0}}

WellFormed == {s \in Timestamps : s.day <= DaysInMonth(s.year, s.month)}

Malformed ==
    {[kind |-> "raw", text |-> <<"n","o","t","-","a","-","d","a","t","e">>],
     [kind |-> "raw", text |-> <<"2","0","2","4","-","1","3","-","4","5","T","9","9",
                                 ":","9","9",":","9","9","Z">>]}

InitTime ==
    /\ Import("stable", {EmptyDict})
    /\ utc_datetime_str \in WellFormed \cup Malformed
    /\ localized = NotCalled

localize ==
    /\ localized = NotCalled
    /\ localized' = convert_to_canada_central_time(utc_datetime_str)
    /\ UNCHANGED <<TRELLO_API_KEY, TRELLO_TOKEN, processed_cards, frame, obs, dropped,
                   environ, passes, upstream_mode, utc_datetime_str>>

NextTime == localize

SpecTime == InitTime /\ [][NextTime]_vars

(***************************************************************************)
(* The claims.                                                             *)
(***************************************************************************)
\* the records of request r's pass: all_tasks while it runs, the tasks of the
\* response once it has returned
Tasks(r) == IF frame[r].pc = "done" THEN frame[r].response.tasks ELSE frame[r].all_tasks

CardOf(record) == record.Trello_Card_Link[2]
CardsIn(tasks) == {CardOf(tasks[i]) : i \in 1..Len(tasks)}
RecordsOf(tasks, c) == SelectSeq(tasks, LAMBDA t : CardOf(t) = c)
Finished(r, status) == frame[r].pc = "done" /\ frame[r].response.status = status

\* C1: a card that was in the processed set when a pass began (it reached the
\* mark step in an earlier pass) has no record in that pass, while the pass
\* runs and in its response.
C1_NoReemission ==
    \A r \in Requests : CardsIn(Tasks(r)) \cap obs[r].start_processed = {}

\* a later pass returned 200 after meeting, open, a card whose records an
\* earlier pass had emitted
C1_Witness ==
    \E r \in Requests :
        /\ Finished(r, 200)
        /\ (obs[r].skipped \cap obs[r].start_processed) \ dropped # {}

\* C2: in a pass that returned 200, a card whose checklist fetch carried n >= 1
\* items has exactly n records, one per item and none for the card itself, and
\* they agree on the six card-level fields.
C2_OneRecordPerItem ==
    \A r \in Requests :
        Finished(r, 200) =>
            \A p \in obs[r].items_of :
                p[2] >= 1 =>
                    LET recs == RecordsOf(frame[r].response.tasks, p[1])
                    IN  /\ Len(recs) = p[2]
                        /\ {recs[i].Step : i \in 1..Len(recs)}
                              = {<<"Step", i>> : i \in 1..p[2]}
                        /\ \A i, j \in 1..Len(recs) :
                              /\ recs[i].Client_Name = recs[j].Client_Name
                              /\ recs[i].Project_Name = recs[j].Project_Name
                              /\ recs[i].Status = recs[j].Status
                              /\ recs[i].Assigned_To = recs[j].Assigned_To
                              /\ recs[i].Trello_Card_Link = recs[j].Trello_Card_Link
                              /\ recs[i].Comment = recs[j].Comment

\* a pass returned 200 with the records of a card of several items
C2_Witness ==
    \E r \in Requests :
        /\ Finished(r, 200)
        /\ \E p \in obs[r].items_of :
              p[2] >= 2 /\ Len(RecordsOf(frame[r].response.tasks, p[1])) = p[2]

\* C3: no record of a pass belongs to a card upstream reported archived in it.
C3_NoArchivedCard ==
    \A r \in Requests : CardsIn(Tasks(r)) \cap obs[r].reported_closed = {}

\* a pass returned records although upstream reported an archived card that
\* had never been processed
C3_Witness ==
    \E r \in Requests :
        /\ Finished(r, 200)
        /\ frame[r].response.tasks # <<>>
        /\ obs[r].reported_closed \ processed_cards # {}

NotConfigured(name, placeholder) ==
    name \notin DOMAIN environ \/ environ[name] = placeholder

C5_MissingCredentials ==
    \A r \in Requests :
        (/\ frame[r].pc # "idle"
         /\ \/ NotConfigured("TRELLO_API_KEY", "your_api_key_here")
            \/ NotConfigured("TRELLO_TOKEN", "your_token_here"))
        => /\ Finished(r, 400)
           /\ ~obs[r].called
           /\ processed_cards = obs[r].start_processed

\* a request was refused with the key configured and the token unset
C5_Witness ==
    \E r \in Requests :
        /\ Finished(r, 400)
        /\ "TRELLO_TOKEN" \notin DOMAIN environ
        /\ ~NotConfigured("TRELLO_API_KEY", "your_api_key_here")

\* the n-th Sunday of a month
NthSunday(y, m, n) ==
    CHOOSE d \in 1..DaysInMonth(y, m) : Weekday(y, m, d) = 6 /\ (d - 1) \div 7 = n - 1

\* the local time a result shows, as a datetime value
Shown(out) ==
    Datetime(out.date[1], out.date[2], out.date[3],
             (out.hour % 12) + (IF out.ampm = "PM" THEN 12 ELSE 0), out.minute)

\* C6: a well-formed timestamp gets -5 hours and CDT exactly from midnight of
\* the second Sunday of March to midnight of the first Sunday of November of
\* its year, and -6 hours and CST otherwise.
C6_DstWindow ==
    (utc_datetime_str.kind = "iso" /\ localized.kind = "local") =>
        LET s == utc_datetime_str
            t == Datetime(s.year, s.month, s.day, s.hour, s.minute)
        IN  IF /\ Datetime(s.year, 3, NthSunday(s.year, 3, 2), 0, 0) <= t
               /\ t < Datetime(s.year, 11, NthSunday(s.year, 11, 1), 0, 0)
            THEN localized.label = "CDT" /\ Shown(localized) = t - 5 * 60
            ELSE localized.label = "CST" /\ Shown(localized) = t - 6 * 60

\* whether cache d holds everything cache c holds, under the same names
Keeps(c, d) == \A id \in DOMAIN c : id \in DOMAIN d /\ d[id] = c[id]

C8_DroppedForGood ==
    /\ dropped \subseteq processed_cards
    /\ \A r \in Requests : CardsIn(Tasks(r)) \cap dropped = {}

\* a later pass returned 200 with records, having met, open, a card that an
\* earlier pass had dropped
C8_Witness ==
    \E r \in Requests :
        /\ Finished(r, 200)
        /\ frame[r].response.tasks # <<>>
        /\ obs[r].skipped \cap obs[r].start_processed \cap dropped # {}

\* C9: a pass that ends in HTTP 500 leaves the processed set as it found it.
C9_FailedPassMarksNothing ==
    \A r \in Requests :
        Finished(r, 500) => processed_cards = obs[r].start_processed

\* C10: when passes interleave, two of them return records of one card only
\* if each of them tested the card before the other had marked it.
C10_DoubleEmissionNeedsTheRace ==
    \A r, q \in Requests :
        (r # q /\ frame[r].pc = "done" /\ frame[q].pc = "done") =>
            (CardsIn(Tasks(r)) \cap CardsIn(Tasks(q)))
                \cap (obs[r].marked_at_test \cup obs[q].marked_at_test) = {}

\* both passes returned 200 with records of the same card
C10_Witness ==
    /\ Finished("r1", 200)
    /\ Finished("r2", 200)
    /\ CardsIn(Tasks("r1")) \cap CardsIn(Tasks("r2")) # {}

====
